---- MODULE Spec2Model ----
(***************************************************************************)
(* Model of go-jijin-monitor (src/main.go): the ticker-driven polling      *)
(* goroutine of main, the Task goroutine it spawns per the rule      *)
(* evaluation (IsInitPrice, IsUpDownPrice, IsFibonacciSequence) and the    *)
(* per-(code, day) notification record LogMap behind GetLogData.           *)
(*                                                                         *)
(* Numbers.  Prices are integers in hundredths (10.00 is 1000).  A rule's  *)
(* Up/Down value is an integer in hundredths too (the flag text "0.10" is  *)
(* 10).  A percentage change is kept as the exact fraction num/den, and    *)
(* every comparison is cross-multiplied, so no rounding is involved; the   *)
(* quotes the model draws keep every comparison away from a tie, where the *)
(* float64 conversion of the program could differ from exact arithmetic.   *)
(*                                                                         *)
(* Two specifications.  Spec is the program against an arbitrary feed,     *)
(* clock, ticker and webhook; its quotes move an instrument by at most     *)
(* three rungs.  SpecSession is the program against one scripted trading   *)
(* session (SessionEtf, SessionLof) with a healthy feed and webhook on one *)
(* calendar day; its quotes climb the ladder up to its end.                *)
(*                                                                         *)
(* Steps.  Task is cut at its blocking calls (the two HTTP fetches) and at *)
(* every call of GetLogData, because each such call reads the wall clock   *)
(* again: Midnight may fall between any two of them.                       *)
(***************************************************************************)
EXTENDS Integers, Sequences, FiniteSets, TLC

\* ------------------------------------------------------------------ bounds

\* Calendar days the wall clock can show: 1..MaxDay.
MaxDay == 2

\* Ticks the polling goroutine receives before the model stops it.
MaxCycles == 2

\* ------------------------------------------------------- program constants

\* generateFibonacciSequence(20)
LadderLen == 20

\* Capacity of the channel behind time.NewTicker.
TickerCap == 1

\* Scale of prices and thresholds: two decimals.
Scale == 100

\* The nil *big.Float.  No threshold text of the flag parses to a negative
\* number: "-" is the field separator of an item.
Nil == -1

\* ----------------------------------------------------------------- ladder

\* The sequence that begins 1, 1.
RECURSIVE generateFibonacciFromOneOne(_)
generateFibonacciFromOneOne(n) ==
    IF n = 1 THEN <<1>>
    ELSE IF n = 2 THEN <<1, 1>>
    ELSE LET fib == generateFibonacciFromOneOne(n - 1)
         IN  Append(fib, fib[n - 1] + fib[n - 2])

\* fib[0], fib[1] = 1, 2 and fib[i] = fib[i-1] + fib[i-2] for 2 <= i < n; the
\* sequence here is 1-based.
RECURSIVE generateFibonacciSequence(_)
generateFibonacciSequence(n) ==
    IF n = 1 THEN <<1>>
    ELSE IF n = 2 THEN <<1, 2>>
    ELSE LET fib == generateFibonacciSequence(n - 1)
         IN  Append(fib, fib[n - 1] + fib[n - 2])

fibonacciSequence == generateFibonacciSequence(LadderLen)

\* ------------------------------------------------------------ arithmetic

Abs(x) == IF x < 0 THEN -x ELSE x

\* big.Float Cmp: -1, 0, +1.
Cmp(a, b) == IF a < b THEN -1 ELSE IF a = b THEN 0 ELSE 1

\* The change taken over price2, the price moved from.
calculatePercentageChangeOverFrom(price1, price2) ==
    [num |-> (price1 - price2) * 100, den |-> price2]

\* (price1 - price2) / price1 * 100 as the fraction num/den.  den = 0 with
\* num # 0 is big.Float's infinity.
calculatePercentageChange(price1, price2) ==
    [num |-> (price1 - price2) * 100, den |-> price1]

\* big.Float.Quo panics (ErrNaN) on 0/0.
QuoPanics(price1, price2) == price1 = 0 /\ price1 - price2 = 0

\* The threshold read as a fraction of one (0.10 as 10%) instead of as a
\* number of percent.
ReachesThresholdAsFraction(change, base, mult) ==
    IF change.den = 0 THEN TRUE
    ELSE Abs(change.num) * Scale >= base * mult * Abs(change.den) * 100

\* math.Abs(change) >= base * float64(mult), base in hundredths.
ReachesThreshold(change, base, mult) ==
    IF change.den = 0 THEN TRUE
    ELSE Abs(change.num) * Scale >= base * mult * Abs(change.den)

\* A ratchet step that steps back below the index it was given.
IsFibonacciSequenceStepsBack(currentChange, baseThreshold, fib, currentThresholdIndex) ==
    IF ReachesThreshold(currentChange, baseThreshold, fib[currentThresholdIndex + 1])
    THEN currentThresholdIndex + 1
    ELSE IF currentThresholdIndex > 0 THEN currentThresholdIndex - 1 ELSE 0

\* One ratchet step.  fib is 1-based here, so rung i is fib[i + 1]; the caller
\* must have i < Len(fib), otherwise the program panics (TaskRatchetStep).
IsFibonacciSequence(currentChange, baseThreshold, fib, currentThresholdIndex) ==
    IF ReachesThreshold(currentChange, baseThreshold, fib[currentThresholdIndex + 1])
    THEN currentThresholdIndex + 1
    ELSE currentThresholdIndex

\* ---------------------------------------------------------- configuration

\* The -codes flag, already cut at "," and "-": one tuple of fields per item.
\* "X-0.10-0.05,Y-0.10-0.01,Z-0.10-0.01,W-abc-0.01,Q-0.10"
codes ==
    << <<"X", "0.10", "0.05">>, <<"Y", "0.10", "0.01">>, <<"Z", "0.10", "0.01">>,
       <<"W", "abc", "0.01">>, <<"Q", "0.10">> >>

\* up, _ := new(big.Float).SetString(text): the number in hundredths for the
\* decimal texts the flag above uses; for a text that is no number SetString
\* returns nil (and false, which parseCodes discards).
SetString(text) ==
    CASE text = "0.10" -> 10
      [] text = "0.05" -> 5
      [] text = "0.01" -> 1
      [] OTHER         -> Nil

RECURSIVE parseCodes(_)
parseCodes(items) ==
    IF items = <<>> THEN <<>>
    ELSE LET parts == Head(items)
             rest  == parseCodes(Tail(items))
         IN  IF Len(parts) = 3
             THEN << [Code |-> parts[1], Up |-> SetString(parts[2]),
                      Down |-> SetString(parts[3])] >> \o rest
             ELSE rest

codeArr == parseCodes(codes)

\* ------------------------------------------------------------ data source

\* One JSONData item, reduced to the fields the evaluation reads.
Quote(code, trade, open, settlement) ==
    [Code |-> code, Trade |-> trade, Open |-> open, Settlement |-> settlement]

\* What fetchFundData("ETF") can return in Spec: the one ETF instrument, X,
\* as <<Trade, Open, Settlement>>: flat with no gap; up 0.20% (one rung of
\* 0.10) after a higher open; up 0.50% (three rungs) after a lower open;
\* down 0.20% (three rungs of 0.05) with no gap.
EtfData ==
    { <<Quote("X", p[1], p[2], p[3])>> :
        p \in { <<1000, 1000, 1000>>, <<1002, 1000, 950>>, <<1005, 1000, 1050>>,
                <<998, 1000, 1000>> } }

\* What fetchFundData("LOF") can return in Spec: the one LOF instrument, Y:
\* up 0.20%; not traded and not opened (the feed carries 0 then); not traded,
\* not opened and without a prior close.  W is a LOF instrument that the
\* feed lists in some answers, then up 0.20%.
LofData ==
    { <<Quote("Y", p[1], p[2], p[3])>> :
        p \in { <<1002, 1000, 1000>>, <<0, 0, 1000>>, <<0, 0, 0>> } }
    \cup { << Quote("Y", 1002, 1000, 1000), Quote("W", 1002, 1000, 1000) >> }

\* The scripted session.  X opens at 10.00 over a close of 9.50 and trades at
\* 10.00, 11.20, 11.20, 13.00 and then 1.00.
SessionTrades == << 1000, 1120, 1120, 1300, 100 >>

SessionEtf(c) == << Quote("X", SessionTrades[c], 1000, 950) >>

\* Y stands exactly 10% over its open all session; Z is listed from the second
\* cycle on and stands exactly 20% over its open; W does not move all session.
SessionLof(c) ==
    IF c = 1 THEN << Quote("Y", 1000, 900, 900), Quote("W", 1000, 1000, 1000) >>
    ELSE << Quote("Y", 1000, 900, 900), Quote("Z", 1000, 800, 800),
            Quote("W", 1000, 1000, 1000) >>

\* convertToMap: a later item with the same Code replaces an earlier one.
RECURSIVE convertToMap(_)
convertToMap(data) ==
    IF data = <<>> THEN <<>>
    ELSE LET n    == Len(data)
             init == convertToMap(SubSeq(data, 1, n - 1))
             item == data[n]
         IN  [c \in (DOMAIN init) \cup {item.Code} |->
                 IF c = item.Code THEN item ELSE init[c]]

\* ------------------------------------------------------------------ state

VARIABLES
    today,      \* calendar day of time.Now()
    tickerC,    \* ticker.C: the buffered ticks
    opc,        \* polling goroutine: "select", "wait", "send"
    cycle,      \* ticks received so far
    wg,         \* counter of the current iteration's sync.WaitGroup
    inflight,   \* Task goroutines started and not yet returned
    logStr,     \* the current iteration's logStr, one element per line
    sink,       \* outcome of the current iteration's SendWx
    tpc,        \* Task goroutine: where it stands
    terr,       \* Task: the class whose fetch returned an error, or "none"
    data1,      \* Task: data1
    dataMap,    \* Task: dataMap
    k,          \* Task: position in codeArr (1-based)
    i,          \* IsUpDownPrice: i
    arg,        \* IsFibonacciSequence: currentThresholdIndex
    evalDay,    \* history: the day of the first GetLogData call of the running
                \* IsInitPrice or IsUpDownPrice call, 0 outside of one
    LogMap,     \* LogMap, keyed by <<code, day>>
    gapLog,     \* history: gap-open lines emitted so far, per <<code, day>>
    crashed     \* "no", or why the process ended

vars == << today, tickerC, opc, cycle, wg, inflight, logStr, sink, tpc, terr,
           data1, dataMap, k, i, arg, evalDay, LogMap, gapLog, crashed >>

taskLocals == << terr, data1, dataMap, k, i, arg >>

\* ---------------------------------------------------------------- LogMap

NewLogData == [InitPrice |-> FALSE, UpIndex |-> 0, DownIndex |-> 0]

\* A key without the date: one record per code for all days.
KeyWithoutDay(code) == << code, 1 >>

\* The key GetLogData builds: code + time.Now().Format("2006-01-02").
Key(code) == << code, today >>

\* LogMap after a call of GetLogData(code): the record exists.
GetLogDataMap(code) ==
    IF Key(code) \in DOMAIN LogMap THEN LogMap
    ELSE [key \in (DOMAIN LogMap) \cup {Key(code)} |->
             IF key = Key(code) THEN NewLogData ELSE LogMap[key]]

\* The record GetLogData(code) returns.
GetLogData(code) == GetLogDataMap(code)[Key(code)]

\* LogMap after GetLogData(code) and an assignment to the returned record.
SetLogData(code, data) == [GetLogDataMap(code) EXCEPT ![Key(code)] = data]

\* A history of counts with one more at key.
Counted(log, key) ==
    [x \in (DOMAIN log) \cup {key} |->
        IF x = key THEN (IF key \in DOMAIN log THEN log[key] + 1 ELSE 1)
        ELSE log[x]]

\* ------------------------------------------------------------------- Init

Init ==
    /\ today = 1
    /\ tickerC = <<>>
    /\ opc = "select"
    /\ cycle = 0
    /\ wg = 0
    /\ inflight = 0
    /\ logStr = <<>>
    /\ sink = "none"
    /\ tpc = "none"
    /\ terr = "none"
    /\ data1 = <<>>
    /\ dataMap = <<>>
    /\ k = 0
    /\ i = 0
    /\ arg = 0
    /\ evalDay = 0
    /\ LogMap = <<>>
    /\ gapLog = <<>>
    /\ crashed = "no"

Alive == crashed = "no"

\* ------------------------------------------------------- clock and ticker

\* The wall clock passes midnight.
Midnight ==
    /\ Alive
    /\ today < MaxDay
    /\ today' = today + 1
    /\ UNCHANGED << evalDay, tickerC, opc, cycle, wg, inflight, logStr, sink, tpc,
                    taskLocals, LogMap, gapLog, crashed >>

\* A ticker whose channel takes every tick.
TickerHasRoomAlways == TRUE

\* The runtime's send on ticker.C does not block: it needs a free slot.
TickerHasRoom == Len(tickerC) < TickerCap

\* The polling goroutine is Running (not blocked in the select).
Running == opc # "select"

\* The ticker fires and the tick goes into the channel.  The tick carries
\* its time; the model keeps of it whether a cycle was running then.
TickerSend ==
    /\ Alive
    /\ TickerHasRoom
    /\ tickerC' = Append(tickerC, [busy |-> Running])
    /\ UNCHANGED << evalDay, today, opc, cycle, wg, inflight, logStr, sink, tpc,
                    taskLocals, LogMap, gapLog, crashed >>

\* The ticker fires and the channel is full: the tick is dropped.
TickerDrop ==
    /\ Alive
    /\ ~TickerHasRoom
    /\ UNCHANGED vars

\* ------------------------------------------------------ polling goroutine

\* wg.Wait() with the wait left out.
WgWaitReturnsAtOnce == TRUE

\* wg.Wait() returns when the counter is zero.
WgWaitReturns == wg = 0

\* case <-ticker.C: logStr := "", wg.Add(1), go Task(&logStr, &wg).
OrchRecv(limit) ==
    /\ Alive
    /\ opc = "select"
    /\ tickerC # <<>>
    /\ cycle < limit
    /\ tickerC' = Tail(tickerC)
    /\ cycle' = cycle + 1
    /\ logStr' = <<>>
    /\ sink' = "none"
    /\ wg' = 1
    /\ inflight' = inflight + 1
    /\ tpc' = "fetch1"
    /\ terr' = "none"
    /\ data1' = <<>>
    /\ dataMap' = <<>>
    /\ k' = 0
    /\ i' = 0
    /\ arg' = 0
    /\ evalDay' = 0
    /\ opc' = "wait"
    /\ UNCHANGED << today, LogMap, gapLog, crashed >>

\* A test that takes every logStr for output.
HasOutputAlways(log) == TRUE

\* if logStr != ""
HasOutput(log) == log # <<>>

\* wg.Wait() returns; if logStr != "" the goroutine goes on to PrintLog.
OrchWait ==
    /\ Alive
    /\ opc = "wait"
    /\ WgWaitReturns
    /\ opc' = IF HasOutput(logStr) THEN "send" ELSE "select"
    /\ UNCHANGED << evalDay, today, tickerC, cycle, wg, inflight, logStr, sink, tpc,
                    taskLocals, LogMap, gapLog, crashed >>

\* PrintLog: log.Println, then SendWx whose POST succeeds.
OrchSendOk ==
    /\ Alive
    /\ opc = "send"
    /\ sink' = "ok"
    /\ opc' = "select"
    /\ UNCHANGED << evalDay, today, tickerC, cycle, wg, inflight, logStr, tpc,
                    taskLocals, LogMap, gapLog, crashed >>

\* PrintLog: SendWx whose POST returns an error: log.Fatalf ends the process.
OrchSendFail ==
    /\ Alive
    /\ opc = "send"
    /\ sink' = "failed"
    /\ crashed' = "fatal"
    /\ UNCHANGED << evalDay, today, tickerC, opc, cycle, wg, inflight, logStr, tpc,
                    taskLocals, LogMap, gapLog >>

\* ------------------------------------------------------------------- Task

\* A line appended to logStr: <<kind, code or class, detail>>.  The figures
\* printed in a line are not modelled.
Line(kind, who, detail) == << kind, who, detail >>

\* The rule and the quote the loop of Task is at.
codeItem == codeArr[k]
dataItem == dataMap[codeItem.Code]

\* defer wg.Done(): Task returns.
TaskReturn ==
    /\ tpc' = "none"
    /\ wg' = wg - 1
    /\ inflight' = inflight - 1

\* A Task that goes on after a failed fetch.
FetchErrReturnsNot == FALSE

\* After a failed fetch Task returns (the return statements of lines 364, 370).
FetchErrReturns == TRUE

\* fetchFundData("ETF") returns data.
TaskFetch1Ok(d) ==
    /\ Alive
    /\ tpc = "fetch1"
    /\ data1' = d
    /\ tpc' = "fetch2"
    /\ UNCHANGED << evalDay, today, tickerC, opc, cycle, wg, inflight, logStr, sink,
                    terr, dataMap, k, i, arg, LogMap, gapLog, crashed >>

\* fetchFundData("ETF") returns an error.
TaskFetch1Err ==
    /\ Alive
    /\ tpc = "fetch1"
    /\ logStr' = Append(logStr, Line("fetcherr", "ETF", ""))
    /\ terr' = "ETF"
    /\ IF FetchErrReturns
       THEN TaskReturn
       ELSE tpc' = "fetch2" /\ UNCHANGED << wg, inflight >>
    /\ UNCHANGED << evalDay, today, tickerC, opc, cycle, sink, data1, dataMap, k, i, arg,
                    LogMap, gapLog, crashed >>

\* fetchFundData("LOF") returns data: merge, convertToMap, enter the loop.
TaskFetch2Ok(d) ==
    /\ Alive
    /\ tpc = "fetch2"
    /\ dataMap' = convertToMap(data1 \o d)
    /\ data1' = <<>>
    /\ k' = 1
    /\ tpc' = "loop"
    /\ UNCHANGED << evalDay, today, tickerC, opc, cycle, wg, inflight, logStr, sink,
                    terr, i, arg, LogMap, gapLog, crashed >>

\* fetchFundData("LOF") returns an error.
TaskFetch2Err ==
    /\ Alive
    /\ tpc = "fetch2"
    /\ logStr' = Append(logStr, Line("fetcherr", "LOF", ""))
    /\ terr' = "LOF"
    /\ IF FetchErrReturns
       THEN TaskReturn /\ data1' = <<>> /\ UNCHANGED << dataMap, k >>
       ELSE /\ dataMap' = convertToMap(data1)
            /\ data1' = <<>>
            /\ k' = 1
            /\ tpc' = "loop"
            /\ UNCHANGED << wg, inflight >>
    /\ UNCHANGED << evalDay, today, tickerC, opc, cycle, sink, i, arg, LogMap, gapLog,
                    crashed >>

\* fetchFundData slices the body between "([" and "])": a body whose last
\* "])" comes before its first "([" makes the slice expression panic.
TaskFetchPanic ==
    /\ Alive
    /\ tpc \in {"fetch1", "fetch2"}
    /\ crashed' = "slice"
    /\ UNCHANGED << evalDay, today, tickerC, opc, cycle, wg, inflight, logStr, sink,
                    tpc, taskLocals, LogMap, gapLog >>

\* The loop over codeArr is done: Task returns.
TaskLoopEnd ==
    /\ Alive
    /\ tpc = "loop"
    /\ k > Len(codeArr)
    /\ TaskReturn
    /\ dataMap' = <<>>
    /\ UNCHANGED << evalDay, today, tickerC, opc, cycle, logStr, sink, terr, data1, k,
                    i, arg, LogMap, gapLog, crashed >>

\* A loop that ends at a rule whose code is not in dataMap.
NextRuleNone(n) == Len(codeArr) + 1

\* for _, codeItem := range codeArr: the position after rule n.
NextRule(n) == n + 1

\* dataMap has no item for the rule's code.
TaskNotFound ==
    /\ Alive
    /\ tpc = "loop"
    /\ k <= Len(codeArr)
    /\ codeItem.Code \notin DOMAIN dataMap
    /\ logStr' = Append(logStr, Line("notfound", codeItem.Code, ""))
    /\ k' = NextRule(k)
    /\ UNCHANGED << evalDay, today, tickerC, opc, cycle, wg, inflight, sink, tpc, terr,
                    data1, dataMap, i, arg, LogMap, gapLog, crashed >>

\* ------------------------------------------------------------ IsInitPrice

\* The switch on Settlement.Cmp(Open): the text s.
GapClass(item) ==
    CASE Cmp(item.Settlement, item.Open) = -1 -> "high_open"
      [] Cmp(item.Settlement, item.Open) = 0  -> ""
      [] Cmp(item.Settlement, item.Open) = 1  -> "low_open"

\* A notification that leaves the record as it was.
MarkNotifiedForgets(data) == data

\* GetLogData(code).InitPrice = true
MarkNotified(data) == [data EXCEPT !.InitPrice = TRUE]

\* The rule's code is in dataMap: IsInitPrice begins and computes ratio;
\* calculatePercentageChange(Open, Settlement) with both 0 panics in Quo.
TaskInitEnter ==
    /\ Alive
    /\ tpc = "loop"
    /\ k <= Len(codeArr)
    /\ codeItem.Code \in DOMAIN dataMap
    /\ IF QuoPanics(dataItem.Open, dataItem.Settlement)
       THEN crashed' = "nan" /\ tpc' = tpc
       ELSE crashed' = crashed /\ tpc' = "init_test"
    /\ UNCHANGED << evalDay, today, tickerC, opc, cycle, wg, inflight, logStr, sink,
                    taskLocals, LogMap, gapLog >>

\* if !GetLogData(code).InitPrice
TaskInitTest ==
    /\ Alive
    /\ tpc = "init_test"
    /\ LogMap' = GetLogDataMap(codeItem.Code)
    /\ tpc' = IF ~GetLogData(codeItem.Code).InitPrice THEN "init_set" ELSE "ud_enter"
    /\ evalDay' = IF ~GetLogData(codeItem.Code).InitPrice THEN today ELSE 0
    /\ UNCHANGED << today, tickerC, opc, cycle, wg, inflight, logStr, sink,
                    taskLocals, gapLog, crashed >>

\* GetLogData(code).InitPrice = true; *logStr += the gap-open line.
TaskInitSet ==
    /\ Alive
    /\ tpc = "init_set"
    /\ LogMap' = SetLogData(codeItem.Code, MarkNotified(GetLogData(codeItem.Code)))
    /\ logStr' = Append(logStr, Line("gap", codeItem.Code, GapClass(dataItem)))
    /\ gapLog' = Counted(gapLog, Key(codeItem.Code))
    /\ evalDay' = 0
    /\ tpc' = "ud_enter"
    /\ UNCHANGED << today, tickerC, opc, cycle, wg, inflight, sink, taskLocals,
                    crashed >>

\* ---------------------------------------------------------- IsUpDownPrice

\* dataItem.Open.Cmp(dataItem.Trade): -1 is the rise branch, 1 the fall branch.
Dir(item) == Cmp(item.Open, item.Trade)

\* ratio of IsUpDownPrice.
Ratio(item) == calculatePercentageChange(item.Trade, item.Open)

\* codeItem.Up on the rise branch, codeItem.Down on the fall branch.
Base(rule, dir) == IF dir = -1 THEN rule.Up ELSE rule.Down

\* UpIndex or DownIndex of a record, by branch.
IndexOf(data, dir) == IF dir = -1 THEN data.UpIndex ELSE data.DownIndex

\* An assignment that writes both indices.
WithIndexBoth(data, dir, index) ==
    [data EXCEPT !.UpIndex = index, !.DownIndex = index]

\* The record with the branch's index assigned.
WithIndex(data, dir, index) ==
    IF dir = -1 THEN [data EXCEPT !.UpIndex = index]
    ELSE [data EXCEPT !.DownIndex = index]

\* What GetLogData(code).UpIndex (DownIndex) reads now, for the rule at hand.
StoredIndex == IndexOf(GetLogData(codeItem.Code), Dir(dataItem))

\* index of the loop body: the ratchet step applied to arg.
Index == IsFibonacciSequence(Ratio(dataItem), Base(codeItem, Dir(dataItem)),
                             fibonacciSequence, arg)

\* IsUpDownPrice begins: ratio is computed (Quo panics on 0/0) and the
\* switch taken; on equal prices the function returns.
TaskUpDownEnter ==
    /\ Alive
    /\ tpc = "ud_enter"
    /\ IF QuoPanics(dataItem.Trade, dataItem.Open)
       THEN crashed' = "nan" /\ k' = k /\ tpc' = tpc
       ELSE IF Dir(dataItem) = 0
            THEN crashed' = crashed /\ k' = k + 1 /\ tpc' = "loop"
            ELSE crashed' = crashed /\ k' = k /\ tpc' = "ud_i"
    /\ UNCHANGED << evalDay, today, tickerC, opc, cycle, wg, inflight, logStr, sink,
                    terr, data1, dataMap, i, arg, LogMap, gapLog >>

\* i := GetLogData(code).UpIndex (DownIndex)
TaskUpDownStart ==
    /\ Alive
    /\ tpc = "ud_i"
    /\ LogMap' = GetLogDataMap(codeItem.Code)
    /\ i' = StoredIndex
    /\ evalDay' = today
    /\ tpc' = "ud_arg"
    /\ UNCHANGED << today, tickerC, opc, cycle, wg, inflight, logStr, sink,
                    terr, data1, dataMap, k, arg, gapLog, crashed >>

\* index := IsFibonacciSequence(ratio, base, fibonacciSequence,
\*                              GetLogData(code).UpIndex)
\* baseThreshold.Float64() panics on a nil baseThreshold, and after it the
\* expression fibonacciSequence[currentThresholdIndex] panics when the index
\* is not in the slice.
TaskRatchetStep ==
    /\ Alive
    /\ tpc = "ud_arg"
    /\ LogMap' = GetLogDataMap(codeItem.Code)
    /\ arg' = StoredIndex
    /\ IF Base(codeItem, Dir(dataItem)) = Nil
       THEN crashed' = "nil" /\ tpc' = tpc
       ELSE IF StoredIndex < Len(fibonacciSequence)
            THEN crashed' = crashed /\ tpc' = "ud_cmp"
            ELSE crashed' = "index" /\ tpc' = tpc
    /\ UNCHANGED << evalDay, today, tickerC, opc, cycle, wg, inflight, logStr, sink,
                    terr, data1, dataMap, k, i, gapLog >>

\* if index != GetLogData(code).UpIndex ... else break
TaskRatchetCmp ==
    /\ Alive
    /\ tpc = "ud_cmp"
    /\ LogMap' = GetLogDataMap(codeItem.Code)
    /\ tpc' = IF Index # StoredIndex THEN "ud_set" ELSE "ud_end"
    /\ UNCHANGED << evalDay, today, tickerC, opc, cycle, wg, inflight, logStr, sink,
                    taskLocals, gapLog, crashed >>

\* GetLogData(code).UpIndex = index
TaskRatchetSet ==
    /\ Alive
    /\ tpc = "ud_set"
    /\ LogMap' = SetLogData(codeItem.Code,
                            WithIndex(GetLogData(codeItem.Code), Dir(dataItem), Index))
    /\ tpc' = "ud_arg"
    /\ UNCHANGED << evalDay, today, tickerC, opc, cycle, wg, inflight, logStr, sink,
                    taskLocals, gapLog, crashed >>

\* A test that takes every evaluation for a move of the index.
IndexMovedAlways(index, start) == TRUE

\* GetLogData(code).UpIndex != i
IndexMoved(index, start) == index # start

\* if GetLogData(code).UpIndex != i { *logStr += the intraday line }
TaskUpDownEnd ==
    /\ Alive
    /\ tpc = "ud_end"
    /\ LogMap' = GetLogDataMap(codeItem.Code)
    /\ logStr' = IF IndexMoved(StoredIndex, i)
                 THEN Append(logStr, Line("intraday", codeItem.Code,
                                          IF Dir(dataItem) = -1 THEN "up" ELSE "down"))
                 ELSE logStr
    /\ k' = k + 1
    /\ i' = 0
    /\ arg' = 0
    /\ evalDay' = 0
    /\ tpc' = "loop"
    /\ UNCHANGED << today, tickerC, opc, cycle, wg, inflight, sink, terr,
                    data1, dataMap, gapLog, crashed >>

\* --------------------------------------------------------- specifications

\* The evaluation of one rule, step by step.
Evaluate ==
    \/ TaskLoopEnd
    \/ TaskNotFound
    \/ TaskInitEnter
    \/ TaskInitTest
    \/ TaskInitSet
    \/ TaskUpDownEnter
    \/ TaskUpDownStart
    \/ TaskRatchetStep
    \/ TaskRatchetCmp
    \/ TaskRatchetSet
    \/ TaskUpDownEnd

Next ==
    \/ Midnight
    \/ TickerSend
    \/ TickerDrop
    \/ OrchRecv(MaxCycles)
    \/ OrchWait
    \/ OrchSendOk
    \/ OrchSendFail
    \/ \E d \in EtfData : TaskFetch1Ok(d)
    \/ TaskFetch1Err
    \/ \E d \in LofData : TaskFetch2Ok(d)
    \/ TaskFetch2Err
    \/ TaskFetchPanic
    \/ Evaluate

Spec == Init /\ [][Next]_vars

\* One scripted session: the feed answers with the script, nothing fails and
\* the day does not change.
NextSession ==
    \/ TickerSend
    \/ TickerDrop
    \/ OrchRecv(Len(SessionTrades))
    \/ OrchWait
    \/ OrchSendOk
    \/ TaskFetch1Ok(SessionEtf(cycle))
    \/ TaskFetch2Ok(SessionLof(cycle))
    \/ Evaluate

SpecSession == Init /\ [][NextSession]_vars

\* ----------------------------------------------------------------- claims

\* The record of <<code, day>>, or the zero record when LogMap has none yet.
Stored(map, key) == IF key \in DOMAIN map THEN map[key] ELSE NewLogData

\* The lines of logStr about one instrument.
LinesOf(code) == SelectSeq(logStr, LAMBDA l : l[2] = code)

\* The Task of cycle n has returned and the polling goroutine has not yet
\* looked at logStr.
CycleDone(n) == cycle = n /\ tpc = "none" /\ opc = "wait"

\* C1: for every instrument and calendar day, the gap-open check emits a
\* gap-open line at most once, however many cycles run that day.
GapLineAtMostOncePerDay ==
    \A key \in DOMAIN gapLog : gapLog[key] <= 1

\* C1 witness: in the second cycle the gap-open check of X has run again on
\* a day whose line is already out, and has emitted nothing.
GapCheckedAgainSilently ==
    /\ cycle = 2
    /\ tpc = "ud_enter"
    /\ codeItem.Code = "X"
    /\ Key("X") \in DOMAIN gapLog
    /\ gapLog[Key("X")] = 1
    /\ LinesOf("X") = <<>>

\* C2: when the prior close equals the open, the gap-open check appends no
\* line and does not set InitPrice, whatever InitPrice is.
NoGapLineWhenCloseEqualsOpen ==
    [][ ( /\ tpc \in {"init_test", "init_set"}
          /\ Cmp(dataItem.Settlement, dataItem.Open) = 0 )
        => ( /\ logStr' = logStr
             /\ \A key \in DOMAIN LogMap' :
                    Stored(LogMap', key).InitPrice = Stored(LogMap, key).InitPrice )
      ]_vars

\* C3: a ratchet step returns an index not below the one it was given, and
\* no stored UpIndex or DownIndex ever decreases.
RatchetMonotonic ==
    /\ [](tpc \in {"ud_cmp", "ud_set"} => Index >= arg)
    /\ [][ \A key \in DOMAIN LogMap :
              /\ key \in DOMAIN LogMap'
              /\ LogMap'[key].UpIndex >= LogMap[key].UpIndex
              /\ LogMap'[key].DownIndex >= LogMap[key].DownIndex ]_vars

\* C3 witness: an evaluation of X that began at rung 1, left by an earlier
\* cycle, has climbed to rung 3.
RatchetResumedAndClimbed ==
    /\ cycle = 2
    /\ tpc = "ud_end"
    /\ codeItem.Code = "X"
    /\ Dir(dataItem) = -1
    /\ i = 1
    /\ StoredIndex = 3

\* The quote stands exactly pct percent over its open, as percentChange
\* computes it: (Trade - Open) / Trade * 100 = pct.
RisesExactly(item, pct) ==
    /\ item.Trade > item.Open
    /\ (item.Trade - item.Open) * 100 = pct * item.Trade

\* An evaluation that began at stored index 0 under a base threshold of 0.10
\* has left its loop, for a rise of exactly pct percent.
RatchetDoneFromZero(pct) ==
    /\ tpc = "ud_end"
    /\ i = 0
    /\ codeItem.Up = 10
    /\ RisesExactly(dataItem, pct)

\* C4 as claimed: from index 0 with base 0.10, a move of exactly 10% leaves
\* the stored index at 1 and a move of exactly 20% leaves it at 2.
TenPercentIsRungOne ==
    /\ RatchetDoneFromZero(10) => StoredIndex = 1
    /\ RatchetDoneFromZero(20) => StoredIndex = 2

\* C4 amended: the base 0.10 is a number of percent, so the rungs are 0.1%,
\* 0.2%, 0.3%, 0.5%, ...: a move of exactly 10% leaves the stored index at 10
\* and a move of exactly 20% leaves it at 11.
TenPercentIsRungTen ==
    /\ RatchetDoneFromZero(10) => StoredIndex = 10
    /\ RatchetDoneFromZero(20) => StoredIndex = 11

\* C4 witness: the 20% evaluation (Z) is done, after the 10% one (Y).
BothExactMovesEvaluated ==
    /\ RatchetDoneFromZero(20)
    /\ codeItem.Code = "Z"
    /\ Stored(LogMap, << "Y", today >>).UpIndex = 10

\* The session's record of X.
SessionX == Stored(LogMap, << "X", 1 >>)

\* C5 as claimed: cycle 1 emits the gap-open line only; cycle 2 one intraday
\* line, UpIndex 0 -> 1; cycle 3 nothing, UpIndex unchanged; cycle 4 one
\* intraday line, UpIndex from 1 to 2 or further.
SessionAsClaimed ==
    /\ CycleDone(1) => /\ LinesOf("X") = << Line("gap", "X", "high_open") >>
                       /\ SessionX.UpIndex = 0
    /\ CycleDone(2) => /\ LinesOf("X") = << Line("intraday", "X", "up") >>
                       /\ SessionX.UpIndex = 1
    /\ CycleDone(3) => /\ LinesOf("X") = <<>>
                       /\ SessionX.UpIndex = 1
    /\ CycleDone(4) => /\ LinesOf("X") = << Line("intraday", "X", "up") >>
                       /\ SessionX.UpIndex >= 2

\* C5 amended: the same session with the rungs the program has: cycle 2
\* takes UpIndex 0 -> 10 (the move is 10.71% of the trade price), cycle 3
\* leaves it at 10, cycle 4 takes it 10 -> 11 (23.08%).
SessionAsRun ==
    /\ CycleDone(1) => /\ LinesOf("X") = << Line("gap", "X", "high_open") >>
                       /\ SessionX.UpIndex = 0
    /\ CycleDone(2) => /\ LinesOf("X") = << Line("intraday", "X", "up") >>
                       /\ SessionX.UpIndex = 10
    /\ CycleDone(3) => /\ LinesOf("X") = <<>>
                       /\ SessionX.UpIndex = 10
    /\ CycleDone(4) => /\ LinesOf("X") = << Line("intraday", "X", "up") >>
                       /\ SessionX.UpIndex = 11

\* C5 witness: the fourth cycle of the session is done.
SessionFourthCycleDone ==
    /\ CycleDone(4)
    /\ SessionX.UpIndex = 11
    /\ SessionX.InitPrice

\* C6: every index the ratchet reads the ladder at is below its length.
LadderIndexInRange == arg < LadderLen

\* C7: at most one Task is in flight, and none while the polling goroutine
\* waits for a tick: a cycle starts only after the one before has ended.
AtMostOneTaskInFlight ==
    /\ inflight <= 1
    /\ opc = "select" => inflight = 0

\* C7 witness: a tick is waiting in the channel while the Task of the second
\* cycle is evaluating.
TickWaitsWhileTaskRuns ==
    /\ cycle = 2
    /\ inflight = 1
    /\ tpc = "ud_cmp"
    /\ tickerC # <<>>

\* C8 as claimed: no cycle starts on a tick that fired while a cycle was
\* Running.
TickWhileRunningNeverStartsCycle ==
    [][ cycle' = cycle + 1 => ~Head(tickerC).busy ]_vars

\* C8 amended: the channel keeps one tick, also one that fired while a cycle
\* was Running; only a tick that finds the channel full is dropped, so never
\* more than one is pending, and a pending tick leaves the channel only by
\* starting a cycle.
AtMostOneTickPending ==
    /\ [](Len(tickerC) <= TickerCap)
    /\ [][ Len(tickerC') < Len(tickerC) => cycle' = cycle + 1 ]_vars

\* C8 witness: the first cycle is over and a tick that fired during it is
\* waiting to start the next.
DeferredTickPending ==
    /\ cycle = 1
    /\ opc = "select"
    /\ tickerC = << [busy |-> TRUE] >>

\* C9 as claimed: after a failed fetch the cycle still goes through the rules.
FetchFailureStillEvaluates ==
    (tpc = "none" /\ terr # "none") => k = Len(codeArr) + 1

\* C9 amended: a failed fetch ends the Task at once: logStr holds the failure
\* line and nothing else, no rule is evaluated, and the Task has returned
\* through wg.Done().
FetchFailureEndsTask ==
    terr # "none" =>
        /\ tpc = "none"
        /\ wg = 0
        /\ k = 0
        /\ logStr = << Line("fetcherr", terr, "") >>

\* C9 witness: the LOF fetch failed after the ETF fetch had succeeded, and
\* the polling goroutine is about to send the failure text.
FetchFailureGoesToSink ==
    /\ terr = "LOF"
    /\ opc = "send"
    /\ Alive

\* C10: a failed delivery leaves the process running.
SinkFailureOnlyLogged == sink = "failed" => Alive

\* The 'not found' lines of logStr about one code.
NotFoundLines(code) == SelectSeq(logStr, LAMBDA l : l = Line("notfound", code, ""))

\* The Task is in its loop over codeArr, dataMap in hand.
InLoop == tpc \notin {"none", "fetch1", "fetch2"}

\* C11: a rule whose code is not in the fetched quotes gets exactly one 'not
\* found' line in the cycle (and a rule whose code is there gets none), the
\* step that appends it leaves LogMap alone, does not end the process and
\* moves the loop to the next rule, and a Task that returns without a fetch
\* error has gone through every rule.
NotFoundIsOneLineAndGoesOn ==
    /\ [](InLoop =>
            \A j \in DOMAIN codeArr :
                Len(NotFoundLines(codeArr[j].Code)) =
                    IF j < k /\ codeArr[j].Code \notin DOMAIN dataMap THEN 1 ELSE 0)
    /\ []((tpc = "none" /\ cycle > 0 /\ terr = "none") => k = Len(codeArr) + 1)
    /\ [][ ( /\ tpc = "loop"
             /\ k <= Len(codeArr)
             /\ codeItem.Code \notin DOMAIN dataMap
             /\ << tpc, k, logStr, LogMap, crashed >>' # << tpc, k, logStr, LogMap, crashed >> )
           => ( /\ logStr' = Append(logStr, Line("notfound", codeItem.Code, ""))
                /\ LogMap' = LogMap
                /\ crashed' = "no"
                /\ tpc' = "loop"
                /\ k' = k + 1 )
      ]_vars

\* C11 witness: Z was not in the quotes, its line is out, LogMap has no
\* record of Z, and the loop has gone on to evaluate the rule after it, W.
NotFoundThenNextRuleEvaluated ==
    /\ tpc = "init_test"
    /\ codeItem.Code = "W"
    /\ "Z" \notin DOMAIN dataMap
    /\ Len(NotFoundLines("Z")) = 1
    /\ \A key \in DOMAIN LogMap : key[1] # "Z"

\* C12: every loaded rule has an Up and a Down threshold (an item with an
\* unparsable threshold is not in codeArr), and no evaluation ends the
\* process for want of a threshold.
MalformedRulesDropped ==
    /\ \A j \in DOMAIN codeArr : codeArr[j].Up # Nil /\ codeArr[j].Down # Nil
    /\ crashed # "nil"

\* C13: the sink is called (sink leaves "none") at most once per cycle, from
\* the send position only, which the polling goroutine reaches only after
\* the Task has returned and only with a logStr that has a line; a cycle
\* whose logStr is empty goes back to the select without a call.
SinkCalledOncePerCycleWithOutput ==
    /\ [](opc = "send" => (tpc = "none" /\ wg = 0 /\ logStr # <<>>))
    /\ [](sink # "none" => (tpc = "none" /\ logStr # <<>>))
    /\ [][ (sink' # sink /\ sink' # "none")
           => (sink = "none" /\ opc = "send" /\ cycle' = cycle) ]_vars
    /\ [][ (opc = "wait" /\ opc' # "wait" /\ logStr = <<>>)
           => (opc' = "select" /\ sink' = "none") ]_vars

\* C13 witness: the third cycle of the session has gone through every rule
\* without a line, and the polling goroutine is back at the select with no
\* sink call made.
SilentCycleMakesNoSinkCall ==
    /\ cycle = 3
    /\ opc = "select"
    /\ tpc = "none"
    /\ k = Len(codeArr) + 1
    /\ logStr = <<>>
    /\ sink = "none"

\* The positions of IsInitPrice and IsUpDownPrice from which the next step
\* calls GetLogData again, after the first call of the same evaluation.
LaterAccess == {"init_set", "ud_arg", "ud_cmp", "ud_set", "ud_end"}

\* C18: within one call of IsInitPrice or IsUpDownPrice every GetLogData
\* call after the first addresses the record of the first, i.e. is made on
\* the day of the first: the flag that is set is the one that was tested,
\* and the index compared at the end is of the record i was read from.
SameRecordThroughoutEvaluation ==
    [][ ( /\ tpc \in LaterAccess
          /\ << tpc, k, crashed >>' # << tpc, k, crashed >> )
        => Key(codeItem.Code) = << codeItem.Code, evalDay >>
      ]_vars

\* The intraday line of the rule at hand.
IntradayLine ==
    Line("intraday", codeItem.Code, IF Dir(dataItem) = -1 THEN "up" ELSE "down")

\* C14: the step that ends an intraday evaluation appends the intraday line,
\* once, if the index of the active direction that GetLogData returns then
\* differs from the one it returned when the evaluation began (i), and
\* appends nothing if it does not; no other step of the evaluation, however
\* many rungs it crosses, appends a line.
EscalationLineIffIndexMoved ==
    [][ /\ (tpc = "ud_end" /\ tpc' # tpc) =>
              LET after == IndexOf(Stored(LogMap', Key(codeItem.Code)), Dir(dataItem))
              IN  /\ after # i => logStr' = Append(logStr, IntradayLine)
                  /\ after = i => logStr' = logStr
        /\ tpc \in {"ud_enter", "ud_i", "ud_arg", "ud_cmp", "ud_set"} => logStr' = logStr
      ]_vars

\* C14 witness: the first evaluation of X has crossed three rungs at once
\* and has put out one intraday line, after the gap-open line.
ThreeRungsOneLine ==
    /\ cycle = 1
    /\ tpc = "loop"
    /\ k = 2
    /\ Stored(LogMap, Key("X")).UpIndex = 3
    /\ logStr = << Line("gap", "X", "low_open"), Line("intraday", "X", "up") >>

\* C15: when an intraday evaluation has left its loop, the stored index of
\* the active direction is the smallest j >= i (the index at the start) whose
\* rung the move does not reach: rung j is not reached, every rung from i to
\* j - 1 is, and j is below the length of the ladder.
RatchetPostcondition ==
    tpc = "ud_end" =>
        LET j     == StoredIndex
            ratio == Ratio(dataItem)
            base  == Base(codeItem, Dir(dataItem))
        IN  /\ j >= i
            /\ j < LadderLen
            /\ ~ReachesThreshold(ratio, base, fibonacciSequence[j + 1])
            /\ \A r \in i .. (j - 1) :
                   ReachesThreshold(ratio, base, fibonacciSequence[r + 1])

\* C16: a record comes into LogMap only under today's date and as the zero
\* record, whatever the records of earlier days hold (the step that creates
\* it may assign the one field it is about: InitPrice in IsInitPrice, the
\* index of the active direction in the loop of IsUpDownPrice), and no step
\* changes or removes the record of a day that is not today.
DayRolloverResets ==
    [][ /\ \A key \in (DOMAIN LogMap') \ (DOMAIN LogMap) :
              /\ key[2] = today
              /\ tpc # "init_set" => LogMap'[key].InitPrice = FALSE
              /\ tpc # "ud_set" => LogMap'[key].UpIndex = 0 /\ LogMap'[key].DownIndex = 0
              /\ tpc = "ud_set" => IndexOf(LogMap'[key], -Dir(dataItem)) = 0
        /\ \A key \in DOMAIN LogMap :
              key[2] # today => (key \in DOMAIN LogMap' /\ LogMap'[key] = LogMap[key])
      ]_vars

\* C16 witness: on the second day X has had its gap-open line again and has
\* climbed from rung 0 again, one rung, while the record of the first day
\* still stands three rungs up.
SecondDayStartsAfresh ==
    /\ today = 2
    /\ << "X", 1 >> \in DOMAIN gapLog
    /\ << "X", 2 >> \in DOMAIN gapLog
    /\ Stored(LogMap, << "X", 1 >>) = [InitPrice |-> TRUE, UpIndex |-> 3, DownIndex |-> 0]
    /\ Stored(LogMap, << "X", 2 >>) = [InitPrice |-> TRUE, UpIndex |-> 1, DownIndex |-> 0]

InInitPrice == tpc \in {"init_test", "init_set"}
InUpDownPrice == tpc \in {"ud_enter", "ud_i", "ud_arg", "ud_cmp", "ud_set", "ud_end"}

\* C19: no step of IsInitPrice changes an UpIndex or a DownIndex; no step of
\* IsUpDownPrice changes an InitPrice, nor a DownIndex on the rise branch,
\* nor an UpIndex on the fall branch; with Trade equal to Open IsUpDownPrice
\* changes no record and appends no line; and no step of the evaluation of
\* one rule changes a record of another code.
ChecksKeepTheirFrame ==
    [][ /\ InInitPrice =>
              \A key \in DOMAIN LogMap' :
                  /\ Stored(LogMap', key).UpIndex = Stored(LogMap, key).UpIndex
                  /\ Stored(LogMap', key).DownIndex = Stored(LogMap, key).DownIndex
        /\ InUpDownPrice =>
              \A key \in DOMAIN LogMap' :
                  /\ Stored(LogMap', key).InitPrice = Stored(LogMap, key).InitPrice
                  /\ Dir(dataItem) = -1 =>
                         Stored(LogMap', key).DownIndex = Stored(LogMap, key).DownIndex
                  /\ Dir(dataItem) = 1 =>
                         Stored(LogMap', key).UpIndex = Stored(LogMap, key).UpIndex
                  /\ Dir(dataItem) = 0 => Stored(LogMap', key) = Stored(LogMap, key)
        /\ (InUpDownPrice /\ Dir(dataItem) = 0) => logStr' = logStr
        /\ (InInitPrice \/ InUpDownPrice) =>
              \A key \in DOMAIN LogMap' :
                  key[1] # codeItem.Code => Stored(LogMap', key) = Stored(LogMap, key)
      ]_vars

\* C19 witness: an evaluation of X on the rise branch has taken UpIndex from
\* 0 to 1 on a record whose DownIndex an earlier cycle had left at 3.
RiseAfterFallKeepsDownIndex ==
    /\ tpc = "ud_end"
    /\ codeItem.Code = "X"
    /\ Dir(dataItem) = -1
    /\ i = 0
    /\ GetLogData("X") = [InitPrice |-> TRUE, UpIndex |-> 1, DownIndex |-> 3]

====
